---------------------------- MODULE Spec2Model ----------------------------
(***************************************************************************)
(* Model of the member-data Q&A services: src/main.py (strategy A, the     *)
(* LLM-backed service) and src/main1.py (strategy B, the local pattern      *)
(* service).                                                                *)
(*                                                                          *)
(* Spec      : the shared cache of fetch_member_data and the /ask request   *)
(*             flow, with several requests interleaving at their awaits.    *)
(* SpecFair  : strategy A with weak fairness of every handler step, for the *)
(*             claims about termination.                                    *)
(* SpecConf  : estimate_confidence applied to a bounded set of answers.     *)
(* SpecCtx   : prepare_context_for_ai applied to batches built item by     *)
(*             item.                                                        *)
(* SpecExtract: extract_info_from_message applied to the messages of one  *)
(*             member, one after the other.                                 *)
(* SpecSearch: search_member_data (with find_member_name) applied to a     *)
(*             bounded set of questions and profile sets.                   *)
(***************************************************************************)
EXTENDS Integers, Sequences, FiniteSets, TLC

VARIABLES
    strategy,            \* "A": src/main.py is the running service, "B": src/main1.py
    key_set,             \* bool(OPENAI_API_KEY)
    member_data_cache,   \* the global member_data_cache
    cache_last_updated,  \* the global cache_last_updated (NoTime or a time in seconds)
    clock,               \* datetime.now(), in seconds
    pc,                  \* per request: where its coroutine stands
    now,                 \* per request: the local `now` of fetch_member_data while its GET
                         \* is in flight, 0 otherwise
    member_data,         \* per request: the local member_data of ask_question
    result,              \* per request: the response of the endpoint
    gets,                \* per request: upstream GETs issued
    posts,               \* per request: completion POSTs issued
    cause,               \* per request: the exception that ended it
    answer,              \* estimate_confidence: its argument
    confidence,          \* estimate_confidence: its result in hundredths, 0 before the call
    batch,               \* prepare_context_for_ai: its argument member_data
    context,             \* prepare_context_for_ai: its result, "" before the call
    question,            \* search_member_data: its argument question
    profiles,            \* search_member_data: its argument data, in dict order
    reply,               \* search_member_data: its result, "" before the call
    extracted            \* extract_info_from_message: its argument member_data

\* The state of the services.
svars == <<strategy, key_set, member_data_cache, cache_last_updated, clock, pc, now,
           member_data, result, gets, posts, cause>>
\* The arguments and results of the pure functions.
fvars == <<answer, confidence, batch, context, question, profiles, reply, extracted>>

vars == <<svars, fvars>>

-----------------------------------------------------------------------------
(* Bounds of the model *)

NumRequests == 2
MaxTicks == 2
TickSeconds == 300
MaxPayload == 2

(* Program constants *)

CACHE_DURATION_MINUTES == 10

Requests == 1..NumRequests
None == "None"
\* cache_last_updated = None: no fetch has succeeded yet.
NoTime == -1

-----------------------------------------------------------------------------
(* Upstream bodies.  "{}" is the empty JSON object, "{items:5}" a body     *)
(* whose items are not a list, batchN a batch with messages.                *)

Batches == {"batch" \o ToString(i) : i \in 1..MaxPayload}
Bodies == {"{}", "{items:5}"} \cup Batches

\* Python truth value of a stored value: an empty dict is false.
Truthy(data) == data # "{}"

\* process_member_data: the profiles built from a raw body; iterating items
\* that are not a list raises TypeError.
process_member_data(raw) ==
    IF raw = "{items:5}" THEN [raises |-> "TypeError", value |-> "{}"]
    ELSE IF raw \in Batches THEN [raises |-> None, value |-> "profiles:" \o raw]
    ELSE [raises |-> None, value |-> "{}"]

\* prepare_context_for_ai, as the request flow sees it: it raises on items
\* that are not a list and returns a context string otherwise.
ContextRaises(data) == IF data = "{items:5}" THEN "TypeError" ELSE None

-----------------------------------------------------------------------------
(* Exceptions and the except clauses *)

\* The classes an exception is an instance of (httpx and builtin hierarchy).
Ancestors(exc) ==
    CASE exc = "TimeoutException" -> {"TimeoutException", "TransportError", "RequestError", "HTTPError", "Exception"}
      [] exc = "ConnectError"     -> {"ConnectError", "NetworkError", "TransportError", "RequestError", "HTTPError", "Exception"}
      [] exc = "ProtocolError"    -> {"ProtocolError", "TransportError", "RequestError", "HTTPError", "Exception"}
      [] exc = "HTTPStatusError"  -> {"HTTPStatusError", "HTTPError", "Exception"}
      [] exc = "JSONDecodeError"  -> {"JSONDecodeError", "ValueError", "Exception"}
      [] exc = "TypeError"        -> {"TypeError", "Exception"}
      [] exc = "KeyError"         -> {"KeyError", "LookupError", "Exception"}
      [] exc = "HTTPException"    -> {"HTTPException", "Exception"}
      [] OTHER                    -> {"Exception"}

RECURSIVE FirstHandler(_, _, _)
\* The first except clause, in textual order, that catches exc.
FirstHandler(handlers, exc, i) ==
    IF i > Len(handlers) THEN [cls |-> None, status |-> 0, detail |-> "uncaught"]
    ELSE IF handlers[i].cls \in Ancestors(exc) THEN handlers[i]
    ELSE FirstHandler(handlers, exc, i + 1)

FetchHandlersSwapped ==
    << [cls |-> "RequestError", status |-> 502, detail |-> "Unable to connect to member data API"],
       [cls |-> "TimeoutException", status |-> 504, detail |-> "API timeout - please try again later"],
       [cls |-> "Exception", status |-> 500, detail |-> "Failed to fetch member data: "] >>

\* The except clauses of fetch_member_data.
FetchHandlers ==
    << [cls |-> "TimeoutException", status |-> 504, detail |-> "API timeout - please try again later"],
       [cls |-> "RequestError", status |-> 502, detail |-> "Unable to connect to member data API"],
       [cls |-> "Exception", status |-> 500, detail |-> "Failed to fetch member data: "] >>

HTTPException(status, detail) == [status |-> status, detail |-> detail]

FetchError(exc) ==
    LET h == FirstHandler(FetchHandlers, exc, 1)
    IN  HTTPException(h.status, h.detail)

\* What the upstream GET can end in: a 2xx body, or an exception raised by
\* client.get, raise_for_status or response.json.
GetOutcomes ==
    [exc : {None}, code : {200}, body : Bodies]
    \cup [exc : {"HTTPStatusError"}, code : {503}, body : {"{}"}]
    \cup [exc : {"TimeoutException", "ConnectError"}, code : {0}, body : {"{}"}]
    \cup [exc : {"JSONDecodeError"}, code : {200}, body : {"{}"}]

-----------------------------------------------------------------------------
(* The cache *)

CacheValidMinutesAsSeconds(t) ==
    /\ cache_last_updated # NoTime
    /\ t - cache_last_updated < CACHE_DURATION_MINUTES
    /\ Truthy(member_data_cache)

\* The validity test of fetch_member_data at time t.
CacheValid(t) ==
    /\ cache_last_updated # NoTime
    /\ t - cache_last_updated < CACHE_DURATION_MINUTES * 60
    /\ Truthy(member_data_cache)

StoredTimestampAtArrival(r) == clock

\* The timestamp a successful fetch stores: its local `now`.
StoredTimestamp(r) == now[r]

NoResult == [status |-> 0, detail |-> ""]
\* A member_data value that is neither a dict with items nor a list.
NoBatch == [shape |-> "other", total |-> 0, items |-> <<>>]
\* An exception and, for an HTTPStatusError, the status it carries.
Raised(exc, code) == [exc |-> exc, code |-> code]
NoCause == Raised(None, 0)
\* process_member_data (main1.py) lines 94-104: the entry of a member seen
\* for the first time.
NewMember(user_name) ==
    [name |-> user_name, messages |-> <<>>, requests |-> <<>>, preferences |-> <<>>,
     locations |-> <<>>, activities |-> <<>>, restaurants |-> <<>>, travel |-> <<>>,
     other_info |-> <<>>]
\* No member entry is being built.
NoMember == NewMember(None)

Init ==
    /\ strategy \in {"A", "B"}
    /\ key_set \in BOOLEAN
    /\ (strategy = "B" => key_set = FALSE)
    /\ member_data_cache = "{}"
    /\ cache_last_updated = NoTime
    /\ clock = 0
    /\ pc = [r \in Requests |-> "start"]
    /\ now = [r \in Requests |-> 0]
    /\ member_data = [r \in Requests |-> "{}"]
    /\ result = [r \in Requests |-> NoResult]
    /\ gets = [r \in Requests |-> 0]
    /\ posts = [r \in Requests |-> 0]
    /\ cause = [r \in Requests |-> NoCause]
    /\ answer = "" /\ confidence = 0
    /\ batch = NoBatch /\ context = ""
    /\ question = "" /\ profiles = <<>> /\ reply = ""
    /\ extracted = NoMember

\* Time passes.
Tick ==
    /\ clock < MaxTicks * TickSeconds
    /\ clock' = clock + TickSeconds
    /\ UNCHANGED <<strategy, key_set, member_data_cache, cache_last_updated, pc, now,
                   member_data, result, gets, posts, cause, fvars>>

\* The request ends with an HTTPException; its locals are gone.
Fail(r, exc, http) ==
    /\ pc' = [pc EXCEPT ![r] = "failed"]
    /\ result' = [result EXCEPT ![r] = http]
    /\ cause' = [cause EXCEPT ![r] = exc]
    /\ now' = [now EXCEPT ![r] = 0]
    /\ member_data' = [member_data EXCEPT ![r] = "{}"]

\* The request ends with an answer; its locals are gone.
Succeed(r) ==
    /\ pc' = [pc EXCEPT ![r] = "done"]
    /\ result' = [result EXCEPT ![r] = [status |-> 200, detail |-> "answer"]]
    /\ now' = [now EXCEPT ![r] = 0]
    /\ member_data' = [member_data EXCEPT ![r] = "{}"]
    /\ UNCHANGED cause

AskQuestionSingleFlight(r) ==
    /\ pc[r] = "start"
    /\ \E empty \in BOOLEAN :
        IF empty
        THEN /\ Fail(r, NoCause, HTTPException(400, "Question cannot be empty"))
             /\ UNCHANGED gets
        ELSE /\ IF CacheValid(clock)
                THEN /\ member_data' = [member_data EXCEPT ![r] = member_data_cache]
                     /\ pc' = [pc EXCEPT ![r] = "fetched"]
                     /\ UNCHANGED <<gets, now>>
                ELSE /\ gets' = [gets EXCEPT ![r] =
                                   IF \E q \in Requests : pc[q] = "get" THEN @ ELSE @ + 1]
                     /\ pc' = [pc EXCEPT ![r] = "get"]
                     /\ now' = [now EXCEPT ![r] = clock]
                     /\ UNCHANGED member_data
             /\ UNCHANGED <<result, cause>>
    /\ UNCHANGED <<strategy, key_set, member_data_cache, cache_last_updated, clock, posts,
                   fvars>>

\* ask_question up to its first await: the empty-question check, then
\* fetch_member_data, which returns the cache when it is valid (lines
\* 58-62) and sends the upstream GET otherwise.
AskQuestion(r) ==
    /\ pc[r] = "start"
    /\ \E empty \in BOOLEAN :
        IF empty
        THEN /\ Fail(r, NoCause, HTTPException(400, "Question cannot be empty"))
             /\ UNCHANGED gets
        ELSE /\ IF CacheValid(clock)
                THEN /\ member_data' = [member_data EXCEPT ![r] = member_data_cache]
                     /\ pc' = [pc EXCEPT ![r] = "fetched"]
                     /\ UNCHANGED <<gets, now>>
                ELSE /\ gets' = [gets EXCEPT ![r] = @ + 1]
                     /\ pc' = [pc EXCEPT ![r] = "get"]
                     /\ now' = [now EXCEPT ![r] = clock]
                     /\ UNCHANGED member_data
             /\ UNCHANGED <<result, cause>>
    /\ UNCHANGED <<strategy, key_set, member_data_cache, cache_last_updated, clock, posts,
                   fvars>>

StoreDataOnly(r, data) ==
    /\ member_data_cache' = data
    /\ UNCHANGED cache_last_updated
    /\ member_data' = [member_data EXCEPT ![r] = data]
    /\ pc' = [pc EXCEPT ![r] = "fetched"]
    /\ now' = [now EXCEPT ![r] = 0]
    /\ UNCHANGED <<result, cause>>

\* Lines 71-74 (main.py) / 65-68 (main1.py): both globals are assigned with
\* no await in between, then the data is returned.
Store(r, data) ==
    /\ member_data_cache' = data
    /\ cache_last_updated' = StoredTimestamp(r)
    /\ member_data' = [member_data EXCEPT ![r] = data]
    /\ pc' = [pc EXCEPT ![r] = "fetched"]
    /\ now' = [now EXCEPT ![r] = 0]
    /\ UNCHANGED <<result, cause>>

GetCompletesDropsEntry(r) ==
    /\ pc[r] = "get"
    /\ \E o \in GetOutcomes :
        IF o.exc # None
        THEN /\ Fail(r, Raised(o.exc, o.code), FetchError(o.exc))
             /\ member_data_cache' = "{}"
             /\ cache_last_updated' = NoTime
        ELSE IF strategy = "A"
        THEN Store(r, o.body)
        ELSE LET p == process_member_data(o.body)
             IN  IF p.raises # None
                 THEN /\ Fail(r, Raised(p.raises, 0), FetchError(p.raises))
                      /\ UNCHANGED <<member_data_cache, cache_last_updated>>
                 ELSE Store(r, p.value)
    /\ UNCHANGED <<strategy, key_set, clock, gets, posts, fvars>>

\* The upstream GET of request r ends: fetch_member_data from the await
\* to its return or raise.
GetCompletes(r) ==
    /\ pc[r] = "get"
    /\ \E o \in GetOutcomes :
        IF o.exc # None
        THEN /\ Fail(r, Raised(o.exc, o.code), FetchError(o.exc))
             /\ UNCHANGED <<member_data_cache, cache_last_updated>>
        ELSE IF strategy = "A"
        THEN Store(r, o.body)
        ELSE LET p == process_member_data(o.body)
             IN  IF p.raises # None
                 THEN /\ Fail(r, Raised(p.raises, 0), FetchError(p.raises))
                      /\ UNCHANGED <<member_data_cache, cache_last_updated>>
                 ELSE Store(r, p.value)
    /\ UNCHANGED <<strategy, key_set, clock, gets, posts, fvars>>

AfterFetchNoContextCheck(r) ==
    /\ pc[r] = "fetched"
    /\ IF strategy = "B"
       THEN Succeed(r) /\ UNCHANGED posts
       ELSE IF ~key_set
       THEN /\ Fail(r, NoCause, HTTPException(500,
                    "AI service not configured. Please set OPENAI_API_KEY environment variable."))
            /\ UNCHANGED posts
       ELSE /\ posts' = [posts EXCEPT ![r] = @ + 1]
            /\ pc' = [pc EXCEPT ![r] = "post"]
            /\ UNCHANGED now
            /\ member_data' = [member_data EXCEPT ![r] = "{}"]
            /\ UNCHANGED <<result, cause>>
    /\ UNCHANGED <<strategy, key_set, member_data_cache, cache_last_updated, clock, gets,
                   fvars>>

\* ask_question after fetch_member_data returned, up to its next await or
\* its end.  Strategy A builds the context and enters ask_ai, which raises
\* without a credential and sends the completion POST otherwise; strategy B
\* answers from the profiles with no further I/O.
AfterFetch(r) ==
    /\ pc[r] = "fetched"
    /\ IF strategy = "B"
       THEN Succeed(r) /\ UNCHANGED posts
       ELSE IF ContextRaises(member_data[r]) # None
       THEN /\ Fail(r, Raised(ContextRaises(member_data[r]), 0),
                    HTTPException(500, "Error processing question: "))
            /\ UNCHANGED posts
       ELSE IF ~key_set
       THEN /\ Fail(r, NoCause, HTTPException(500,
                    "AI service not configured. Please set OPENAI_API_KEY environment variable."))
            /\ UNCHANGED posts
       ELSE /\ posts' = [posts EXCEPT ![r] = @ + 1]
            /\ pc' = [pc EXCEPT ![r] = "post"]
            /\ UNCHANGED now
            /\ member_data' = [member_data EXCEPT ![r] = "{}"]
            /\ UNCHANGED <<result, cause>>
    /\ UNCHANGED <<strategy, key_set, member_data_cache, cache_last_updated, clock, gets,
                   fvars>>

\* What the completion POST can end in: a 2xx body with a usable first
\* choice, a 2xx body without one (no "choices" or an empty list; a first
\* choice without message.content), a non-2xx status, or a transport
\* exception.
PostOutcomes ==
    [exc : {None}, code : {200}, body : {"choices", "nochoices", "badchoice"}]
    \cup [exc : {"HTTPStatusError"}, code : {401, 429, 500}, body : {""}]
    \cup [exc : {"TimeoutException", "ConnectError"}, code : {0}, body : {""}]

\* The exception the body of a 2xx completion response raises inside the
\* try block of ask_ai, None when the first choice is usable.
BodyRaises(body) ==
    CASE body = "choices"   -> None
      [] body = "nochoices" -> "HTTPException"
      [] body = "badchoice" -> "KeyError"

AskAiErrorNoStatusClause(exc, code) ==
    HTTPException(500, "Error calling AI service: ")

\* The except clauses of ask_ai.
AskAiError(exc, code) ==
    IF "HTTPStatusError" \in Ancestors(exc)
    THEN IF code = 401 THEN HTTPException(500, "AI service authentication failed")
         ELSE IF code = 429 THEN HTTPException(503, "AI service rate limit exceeded")
         ELSE HTTPException(500, "AI service error: ")
    ELSE IF "Exception" \in Ancestors(exc)
    THEN HTTPException(500, "Error calling AI service: ")
    ELSE HTTPException(0, "uncaught")

PostCompletesRetry(r) ==
    /\ pc[r] = "post"
    /\ \E o \in PostOutcomes :
        LET exc == IF o.exc # None THEN o.exc ELSE BodyRaises(o.body)
        IN  IF exc # None
            THEN IF o.code = 429 /\ posts[r] < 2
                 THEN /\ posts' = [posts EXCEPT ![r] = @ + 1]
                      /\ UNCHANGED <<pc, result, cause, now, member_data>>
                 ELSE Fail(r, Raised(exc, o.code), AskAiError(exc, o.code)) /\ UNCHANGED posts
            ELSE Succeed(r) /\ UNCHANGED posts
    /\ UNCHANGED <<strategy, key_set, member_data_cache, cache_last_updated, clock, gets,
                   fvars>>

\* The completion POST of request r ends: ask_ai from the await to its
\* return or raise, and ask_question to its end.
PostCompletes(r) ==
    /\ pc[r] = "post"
    /\ \E o \in PostOutcomes :
        LET exc == IF o.exc # None THEN o.exc ELSE BodyRaises(o.body)
        IN  IF exc # None
            THEN Fail(r, Raised(exc, o.code), AskAiError(exc, o.code))
            ELSE Succeed(r)
    /\ UNCHANGED <<strategy, key_set, member_data_cache, cache_last_updated, clock,
                   gets, posts, fvars>>

Next ==
    \/ Tick
    \/ \E r \in Requests : AskQuestion(r)
    \/ \E r \in Requests : GetCompletes(r)
    \/ \E r \in Requests : AfterFetch(r)
    \/ \E r \in Requests : PostCompletes(r)

Spec == Init /\ [][Next]_vars

\* A step of some request: everything but the passing of time.
Progress ==
    \E r \in Requests :
        AskQuestion(r) \/ GetCompletes(r) \/ AfterFetch(r) \/ PostCompletes(r)

\* While some handler is ready to run or some network call is pending, one
\* of them eventually takes its step: the event loop runs the ready
\* handlers, and both clients are created with timeout=30.0.
Fairness == WF_vars(Progress)

\* The deployment of src/main.py: strategy A, with or without a credential.
InitFair == Init /\ strategy = "A"

SpecFair == InitFair /\ [][Next]_vars /\ Fairness

-----------------------------------------------------------------------------
(* Properties of the cache and of the request flow, checked under Spec *)

\* A request has called fetch_member_data in this step.
EntersFetch(r) == pc[r] = "start" /\ pc'[r] \in {"fetched", "get"}

\* The stored entry is fresh at the current time: a timestamp is stored,
\* less than 10 minutes have passed since, and the stored data is not empty.
FreshEntry ==
    /\ cache_last_updated # NoTime
    /\ clock - cache_last_updated < 600
    /\ member_data_cache # "{}"

\* C1: a fetch_member_data call that starts while a non-empty entry less
\* than 10 minutes old is stored returns exactly the stored data, sends no
\* upstream GET and leaves both globals as they were.
C1_CacheHit ==
    [][\A r \in Requests :
         (EntersFetch(r) /\ FreshEntry) =>
            /\ pc'[r] = "fetched"
            /\ member_data'[r] = member_data_cache
            /\ gets'[r] = gets[r]
            /\ member_data_cache' = member_data_cache
            /\ cache_last_updated' = cache_last_updated]_vars

\* A call has returned the cached data without a GET.
C1_Witness ==
    \E r \in Requests :
        /\ pc[r] = "fetched" /\ gets[r] = 0
        /\ member_data[r] = member_data_cache
        /\ member_data[r] # "{}"
        /\ clock > cache_last_updated

\* C2: a call that finds no timestamp, a timestamp 10 minutes old or older,
\* or empty stored data sends exactly one GET; a step changes either global
\* only when one call's GET succeeded, and then it sets the data to what
\* that call returns and the timestamp to that call's `now`, both at once.
C2_CacheMiss ==
    [][/\ \A r \in Requests :
            (EntersFetch(r) /\ ~FreshEntry) =>
                pc'[r] = "get" /\ gets'[r] = gets[r] + 1
       /\ \A r \in Requests : pc[r] = "get" => gets'[r] = gets[r]
       /\ (member_data_cache' # member_data_cache \/ cache_last_updated' # cache_last_updated) =>
            \E r \in Requests :
                /\ pc[r] = "get" /\ pc'[r] = "fetched"
                /\ member_data_cache' = member_data'[r]
                /\ cache_last_updated' = now[r]]_vars

\* A call is awaiting its GET although the stored timestamp is fresh,
\* because the stored data is empty; another call has stored an entry.
C2_Witness ==
    /\ \E r \in Requests :
        /\ pc[r] = "get" /\ gets[r] = 1
        /\ cache_last_updated # NoTime
        /\ now[r] - cache_last_updated < 600
        /\ member_data_cache = "{}"
    /\ \E q \in Requests : pc[q] = "fetched" /\ gets[q] = 1

\* C3: misses are not deduplicated.  A call that misses while another
\* call's GET is in flight still sends its own GET, and a call whose GET
\* succeeds overwrites the entry with its own data and `now` whatever the
\* other calls have written meanwhile; no other step writes the entry, so
\* the entry seen once all calls have returned is that of the call that
\* completed last.
C3_NoSingleFlight ==
    [][/\ \A r \in Requests :
            (pc[r] = "start" /\ pc'[r] = "get" /\ \E q \in Requests : pc[q] = "get") =>
                gets'[r] = gets[r] + 1
       /\ \A r \in Requests :
            (pc[r] = "get" /\ pc'[r] = "fetched") =>
                /\ member_data_cache' = member_data'[r]
                /\ cache_last_updated' = now[r]
       /\ (\A r \in Requests : ~(pc[r] = "get" /\ pc'[r] = "fetched")) =>
            /\ member_data_cache' = member_data_cache
            /\ cache_last_updated' = cache_last_updated]_vars

\* Two calls missed concurrently and each sent a GET; the first to complete
\* stored a fresh non-empty entry, which the second, still in flight, will
\* overwrite.
C3_Witness ==
    \E r, q \in Requests :
        /\ r # q
        /\ pc[r] = "get" /\ gets[r] = 1
        /\ pc[q] = "fetched" /\ gets[q] = 1
        /\ member_data_cache = member_data[q]
        /\ FreshEntry

\* The request failed inside fetch_member_data.
FetchFailed(r) == pc[r] = "failed" /\ gets[r] = 1 /\ posts[r] = 0 /\ cause[r].exc # None
                  /\ ~(strategy = "A" /\ cause[r].exc = "TypeError")

\* C4: a failed fetch ends in one of three outcomes with distinct status
\* codes: a timeout gives 504, a connection error 502, and a non-2xx
\* status, a body that is not JSON or (main1.py) a body that cannot be
\* processed 500; a timeout is never reported as 502.
C4_FetchFailureMapping ==
    \A r \in Requests :
        FetchFailed(r) =>
            /\ result[r].status \in {504, 502, 500}
            /\ (cause[r].exc = "TimeoutException") <=> (result[r].status = 504)
            /\ (cause[r].exc = "ConnectError") <=> (result[r].status = 502)
            /\ (cause[r].exc \in {"HTTPStatusError", "JSONDecodeError", "TypeError"})
                    <=> (result[r].status = 500)

\* A fetch timed out and a fetch of another request failed to connect.
C4_Witness ==
    \E r, q \in Requests :
        /\ FetchFailed(r) /\ cause[r].exc = "TimeoutException"
        /\ FetchFailed(q) /\ cause[q].exc = "ConnectError"

Finished(r) == pc[r] \in {"done", "failed"}

\* C5 as claimed: every finished strategy A request with a non-empty
\* question has sent at most one GET and exactly one completion POST.
C5_ExactlyOneCompletion ==
    \A r \in Requests :
        (strategy = "A" /\ Finished(r) /\ result[r].status # 400) =>
            gets[r] <= 1 /\ posts[r] = 1

\* The request failed inside ask_ai after the POST was sent.
CompletionFailed(r) ==
    /\ pc[r] = "failed"
    /\ result[r].detail \in {"AI service authentication failed",
                             "AI service rate limit exceeded",
                             "AI service error: ",
                             "Error calling AI service: "}

\* C5 amended: a strategy A question sends at most one GET and at most one
\* completion POST; an answered question and a question that failed in
\* the completion call have sent exactly one POST, every other failed
\* question none; a failed call is not sent again.
C5_AtMostOneCompletion ==
    \A r \in Requests :
        /\ gets[r] <= 1
        /\ posts[r] <= 1
        /\ (strategy = "A" /\ pc[r] = "done") => posts[r] = 1
        /\ CompletionFailed(r) => posts[r] = 1
        /\ (pc[r] = "failed" /\ ~CompletionFailed(r)) => posts[r] = 0
        /\ pc[r] = "post" => posts[r] = 1

\* A question was answered from the cache: no GET, one POST; another
\* failed in its completion call after one POST.
C5_Witness ==
    \E r, q \in Requests :
        /\ strategy = "A"
        /\ pc[r] = "done" /\ gets[r] = 0 /\ posts[r] = 1
        /\ CompletionFailed(q) /\ posts[q] = 1

\* The failure kinds of ask_ai, from what went wrong.
CompletionKind(r) ==
    IF cause[r].exc = None THEN "NotConfigured"
    ELSE IF cause[r].exc = "HTTPStatusError" /\ cause[r].code = 401 THEN "AuthError"
    ELSE IF cause[r].exc = "HTTPStatusError" /\ cause[r].code = 429 THEN "RateLimited"
    ELSE "CompletionError"

\* The request failed inside ask_ai.
AskAiFailed(r) ==
    /\ strategy = "A" /\ pc[r] = "failed"
    /\ result[r].status # 400
    /\ \/ posts[r] = 1
       \/ cause[r].exc = None

\* C6: in ask_ai a missing credential gives the fixed "not configured"
\* message and no POST is sent; 401 gives the authentication message; 429
\* gives status 503; any other status and any 2xx response without a usable
\* first choice gives a 500 with an error detail; two failures of different
\* kinds never produce the same (status, detail) pair.
C6_CompletionFailureMapping ==
    /\ \A r \in Requests :
        AskAiFailed(r) =>
            /\ CompletionKind(r) = "NotConfigured" =>
                 /\ result[r] = [status |-> 500, detail |->
                       "AI service not configured. Please set OPENAI_API_KEY environment variable."]
                 /\ posts[r] = 0 /\ ~key_set
            /\ CompletionKind(r) = "AuthError" =>
                 result[r] = [status |-> 500, detail |-> "AI service authentication failed"]
            /\ CompletionKind(r) = "RateLimited" =>
                 result[r] = [status |-> 503, detail |-> "AI service rate limit exceeded"]
            /\ CompletionKind(r) = "CompletionError" =>
                 /\ result[r].status = 500
                 /\ result[r].detail \in {"AI service error: ", "Error calling AI service: "}
    /\ \A r \in Requests : (~key_set) => posts[r] = 0
    /\ \A r, q \in Requests :
        (AskAiFailed(r) /\ AskAiFailed(q) /\ CompletionKind(r) # CompletionKind(q)) =>
            result[r] # result[q]

\* One completion call was refused with 401, another was rate limited.
C6_Witness ==
    \E r, q \in Requests :
        /\ AskAiFailed(r) /\ CompletionKind(r) = "AuthError"
        /\ AskAiFailed(q) /\ CompletionKind(q) = "RateLimited"

\* The network call of request r that failed: "get", "post" or None.
FailedCall(r) ==
    IF pc[r] # "failed" \/ cause[r].exc \notin {"TimeoutException", "ConnectError",
                                                 "HTTPStatusError", "JSONDecodeError",
                                                 "KeyError", "HTTPException"}
    THEN None
    ELSE IF posts[r] = 1 THEN "post" ELSE "get"

\* C7 as claimed: a network call that timed out is reported differently
\* from every failure of the same call that is not a timeout.
C7_TimeoutDistinct ==
    \A r, q \in Requests :
        (/\ FailedCall(r) # None
         /\ FailedCall(r) = FailedCall(q)
         /\ cause[r].exc = "TimeoutException"
         /\ cause[q].exc # "TimeoutException") => result[r] # result[q]

-----------------------------------------------------------------------------
(* Strings.  A string is a sequence of characters; a character is a string *)
(* of length 1.                                                             *)

UpperCase == "ABCDEFGHIJKLMNOPQRSTUVWXYZ"
LowerCase == "abcdefghijklmnopqrstuvwxyz"
Digits == "0123456789"

Chr(s, i) == SubSeq(s, i, i)

\* Python `p in s` for strings.
Contains(s, p) == \E i \in 1..(Len(s) - Len(p) + 1) : SubSeq(s, i, i + Len(p) - 1) = p

\* The characters of a string.
Letters(s) == {Chr(s, i) : i \in 1..Len(s)}
UpperLetters == Letters(UpperCase)
LowerLetters == Letters(LowerCase)
DigitLetters == Letters(Digits)

isupper(c) == c \in UpperLetters
islower(c) == c \in LowerLetters
isdigit(c) == c \in DigitLetters
isspace(c) == c \in {" ", "\n", "\t"}

\* str.lower of one character.
LowerChr(c) ==
    IF isupper(c)
    THEN Chr(LowerCase, CHOOSE i \in 1..Len(UpperCase) : Chr(UpperCase, i) = c)
    ELSE c

RECURSIVE lower(_)
\* str.lower
lower(s) ==
    IF Len(s) = 0 THEN ""
    ELSE IF Len(s) = 1 THEN LowerChr(s)
    ELSE LET h == Len(s) \div 2
         IN  lower(SubSeq(s, 1, h)) \o lower(SubSeq(s, h + 1, Len(s)))

\* The k-th smallest element of a set of numbers.
Nth(S, k) == CHOOSE p \in S : Cardinality({q \in S : q < p}) = k - 1

\* str.split(): the maximal runs of non-whitespace characters.
split(s) ==
    LET starts == {i \in 1..Len(s) :
                     ~isspace(Chr(s, i)) /\ (i = 1 \/ isspace(Chr(s, i - 1)))}
        EndOf(i) == CHOOSE j \in i..Len(s) :
                      /\ \A x \in i..j : ~isspace(Chr(s, x))
                      /\ (j = Len(s) \/ isspace(Chr(s, j + 1)))
    IN  [k \in 1..Cardinality(starts) |-> SubSeq(s, Nth(starts, k), EndOf(Nth(starts, k)))]

RECURSIVE IsTitleFrom(_, _, _, _)
\* str.istitle from position i on: an uppercase character may only follow
\* an uncased one, a lowercase character only a cased one, and there is at
\* least one cased character.
IsTitleFrom(w, i, previous_is_cased, cased) ==
    IF i > Len(w) THEN cased
    ELSE IF isupper(Chr(w, i))
         THEN (~previous_is_cased) /\ IsTitleFrom(w, i + 1, TRUE, TRUE)
    ELSE IF islower(Chr(w, i))
         THEN previous_is_cased /\ IsTitleFrom(w, i + 1, TRUE, TRUE)
    ELSE IsTitleFrom(w, i + 1, FALSE, cased)

istitle(w) == IsTitleFrom(w, 1, FALSE, FALSE)

RECURSIVE join(_, _)
\* sep.join(words)
join(sep, words) ==
    IF words = <<>> THEN ""
    ELSE IF Len(words) = 1 THEN words[1]
    ELSE words[1] \o sep \o join(sep, Tail(words))

Min(a, b) == IF a < b THEN a ELSE b
Max(a, b) == IF a > b THEN a ELSE b

\* The sequences of at most n elements of S.
SeqUpTo(S, n) == UNION {[1..k -> S] : k \in 0..n}

-----------------------------------------------------------------------------
(* estimate_confidence (src/main.py).  Confidences are in hundredths: 80   *)
(* is 0.8.                                                                  *)

uncertainty_phrases ==
    << "i don't have", "not available", "unclear", "uncertain",
       "might be", "possibly", "seems like", "appears to",
       "no information", "can't find", "don't see" >>

detail_patterns == <<"2024", "2025", ":", "-", "reservation", "requested">>

estimate_confidence_nocap(text) ==
    LET answer_lower == lower(text)
        c0 == IF \E i \in 1..Len(uncertainty_phrases) :
                    Contains(answer_lower, uncertainty_phrases[i])
              THEN 40 ELSE 80
        c1 == IF \/ \E i \in 1..Len(text) : isdigit(Chr(text, i))
                 \/ \E i \in 1..Len(split(text)) : istitle(split(text)[i])
              THEN c0 + 15 ELSE c0
        c2 == IF \E i \in 1..Len(detail_patterns) : Contains(text, detail_patterns[i])
              THEN c1 + 10 ELSE c1
    IN  Max(10, c2)

\* estimate_confidence(answer)
estimate_confidence(text) ==
    LET answer_lower == lower(text)
        c0 == IF \E i \in 1..Len(uncertainty_phrases) :
                    Contains(answer_lower, uncertainty_phrases[i])
              THEN 40 ELSE 80
        c1 == IF \/ \E i \in 1..Len(text) : isdigit(Chr(text, i))
                 \/ \E i \in 1..Len(split(text)) : istitle(split(text)[i])
              THEN Min(100, c0 + 15) ELSE c0
        c2 == IF \E i \in 1..Len(detail_patterns) : Contains(text, detail_patterns[i])
              THEN Min(100, c1 + 10) ELSE c1
    IN  Max(10, Min(100, c2))

MaxAnswerWords == 2

\* Words the answers are made of.
AnswerWords ==
    {"no", "information", "No", "possibly", "confirmed", "Reservation",
     "requested", "2025-06-01", "7pm", "table:", "unCLEAR"}

\* Answers of the completion service: the two answers of the spec's
\* examples and every sentence of at most MaxAnswerWords words.
Answers ==
    {"Reservation confirmed for 2025-06-01 at 7pm", "No information available in the data"}
    \cup {join(" ", ws) : ws \in SeqUpTo(AnswerWords, MaxAnswerWords)}

InitConf ==
    /\ strategy = "A" /\ key_set = TRUE
    /\ member_data_cache = "{}" /\ cache_last_updated = NoTime /\ clock = 0
    /\ pc = [r \in Requests |-> "post"]
    /\ now = [r \in Requests |-> 0]
    /\ member_data = [r \in Requests |-> "{}"]
    /\ result = [r \in Requests |-> NoResult]
    /\ gets = [r \in Requests |-> 0]
    /\ posts = [r \in Requests |-> 1]
    /\ cause = [r \in Requests |-> NoCause]
    /\ answer \in Answers
    /\ confidence = 0
    /\ batch = NoBatch /\ context = ""
    /\ question = "" /\ profiles = <<>> /\ reply = ""
    /\ extracted = NoMember

\* ask_ai line 202: confidence = self.estimate_confidence(answer)
EstimateConfidence ==
    /\ confidence = 0
    /\ confidence' = estimate_confidence(answer)
    /\ UNCHANGED <<svars, answer, batch, context, question, profiles, reply, extracted>>

NextConf == EstimateConfidence

SpecConf == InitConf /\ [][NextConf]_vars

\* The answer earns the bonus for specific information: a digit or a
\* capitalised word.
HasSpecifics(text) ==
    \/ \E i \in 1..Len(text) : Chr(text, i) \in {"0", "1", "2", "3", "4", "5", "6", "7", "8", "9"}
    \/ \E w \in {"No", "Reservation"} : Contains(" " \o text \o " ", " " \o w \o " ")

\* The answer earns the bonus for dates and details.
HasDetails(text) ==
    \E p \in {"2024", "2025", ":", "-", "reservation", "requested"} : Contains(text, p)

\* C8: estimate_confidence returns a value in [0.1, 1.0]; both bonuses on
\* the base 0.8 give 1.0 and not 1.05; "Reservation confirmed for
\* 2025-06-01 at 7pm" gets exactly 1.0.
C8_ConfidenceRange ==
    confidence # 0 =>
        /\ 10 <= confidence /\ confidence <= 100
        /\ (HasSpecifics(answer) /\ HasDetails(answer) /\ confidence > 80) => confidence = 100
        /\ answer = "Reservation confirmed for 2025-06-01 at 7pm" => confidence = 100

\* The example answer has been scored, with both bonuses on the base.
C8_Witness ==
    /\ answer = "Reservation confirmed for 2025-06-01 at 7pm"
    /\ HasSpecifics(answer) /\ HasDetails(answer)
    /\ confidence = 100

\* C12: estimate_confidence gives the answer "No information available in
\* the data" the value 0.4, the value the uncertainty phrase
\* "no information" sets.
C12_PenaltyExample ==
    (answer = "No information available in the data" /\ confidence # 0) => confidence = 40

-----------------------------------------------------------------------------
(* prepare_context_for_ai (src/main.py).  member_data is a record: shape   *)
(* "dict" (a dict with "items" and "total"), "list" (a bare list) or       *)
(* "other"; an item is a record whose absent keys hold None.                *)

RECURSIVE Repeat(_, _)
\* c * n
Repeat(c, n) ==
    IF n <= 0 THEN ""
    ELSE IF n = 1 THEN c
    ELSE Repeat(c, n \div 2) \o Repeat(c, n - n \div 2)

\* members_data[user_name].append(m), on a dict kept in insertion order.
AppendMessage(members_data, user_name, m) ==
    IF \E k \in 1..Len(members_data) : members_data[k].name = user_name
    THEN LET k == CHOOSE k \in 1..Len(members_data) : members_data[k].name = user_name
         IN  [members_data EXCEPT ![k].messages = Append(@, m)]
    ELSE Append(members_data, [name |-> user_name, messages |-> <<m>>])

RECURSIVE GroupItems(_, _, _)
\* Lines 101-112: group the messages by member.
GroupItems(items, i, members_data) ==
    IF i > Len(items) THEN members_data
    ELSE LET item == items[i]
         IN  IF item.user_name # None /\ item.message # None
             THEN GroupItems(items, i + 1,
                     AppendMessage(members_data, item.user_name,
                        [message |-> item.message,
                         timestamp |-> IF item.timestamp = None THEN "" ELSE item.timestamp]))
             ELSE GroupItems(items, i + 1, members_data)

\* Lines 120-121: one message line.
MessageLine(msg_data) ==
    LET timestamp == IF msg_data.timestamp # ""
                     THEN SubSeq(msg_data.timestamp, 1, Min(10, Len(msg_data.timestamp)))
                     ELSE "Unknown date"
    IN  "[" \o timestamp \o "] " \o msg_data.message

MemberSectionNoLimit(member) ==
    << "\nMEMBER: " \o member.name, Repeat("-", 30) >>
    \o [i \in 1..Len(member.messages) |-> MessageLine(member.messages[i])]
    \o <<"">>

\* Lines 116-126: the section of one member.
MemberSection(member) ==
    << "\nMEMBER: " \o member.name, Repeat("-", 30) >>
    \o [i \in 1..Min(10, Len(member.messages)) |-> MessageLine(member.messages[i])]
    \o (IF Len(member.messages) > 10
        THEN << "... and " \o ToString(Len(member.messages) - 10) \o " more messages" >>
        ELSE <<>>)
    \o <<"">>

RECURSIVE Sections(_, _)
Sections(members_data, k) ==
    IF k > Len(members_data) THEN <<>>
    ELSE MemberSection(members_data[k]) \o Sections(members_data, k + 1)

\* prepare_context_for_ai(member_data)
prepare_context_for_ai(data) ==
    IF data.shape \notin {"dict", "list"} THEN "No valid member data available."
    ELSE LET total_count == IF data.shape = "dict" THEN data.total ELSE Len(data.items)
             context_parts ==
                << "Member Data System - " \o ToString(total_count) \o " total messages",
                   Repeat("=", 50) >>
                \o Sections(GroupItems(data.items, 1, <<>>), 1)
         IN  join("\n", context_parts)

MaxItems == 12
MaxOther == 1
MaxInvalid == 1

Member1 == "Ann Lee"
Member2 == "Bo Diaz"

TwoDigits(n) == IF n < 10 THEN "0" \o ToString(n) ELSE ToString(n)

\* The k-th item of a batch, of member u: its message text names k, its
\* timestamps descend with k (so batch order is not timestamp order), and
\* every fifth item has no timestamp.
ItemAt(k, u) ==
    [user_name |-> u,
     message |-> "message " \o ToString(k),
     timestamp |-> IF k % 5 = 0 THEN None
                   ELSE "2025-01-" \o TwoDigits(28 - k) \o "T09:30:00Z"]

\* An item without a "message" key.
InvalidItem(u) == [user_name |-> u, message |-> None, timestamp |-> None]

Count(items, P(_)) == Cardinality({i \in 1..Len(items) : P(items[i])})
IsOther(item) == item.user_name = Member2 /\ item.message # None
IsInvalid(item) == item.message = None

InitCtx ==
    /\ strategy = "A" /\ key_set = TRUE
    /\ member_data_cache = "{}" /\ cache_last_updated = NoTime /\ clock = 0
    /\ pc = [r \in Requests |-> "fetched"]
    /\ now = [r \in Requests |-> 0]
    /\ member_data = [r \in Requests |-> "{}"]
    /\ result = [r \in Requests |-> NoResult]
    /\ gets = [r \in Requests |-> 0]
    /\ posts = [r \in Requests |-> 0]
    /\ cause = [r \in Requests |-> NoCause]
    /\ answer = "" /\ confidence = 0
    /\ batch \in {[shape |-> "dict", total |-> 3349, items |-> <<>>],
                  [shape |-> "list", total |-> 0, items |-> <<>>],
                  NoBatch}
    /\ context = ""
    /\ question = "" /\ profiles = <<>> /\ reply = ""
    /\ extracted = NoMember

\* The upstream batch holds one more message, of either member.
AddItem(u) ==
    /\ context = ""
    /\ batch.shape # "other"
    /\ Len(batch.items) < MaxItems
    /\ u = Member2 => Count(batch.items, IsOther) < MaxOther
    /\ batch' = [batch EXCEPT !.items = Append(@, ItemAt(Len(@) + 1, u))]
    /\ UNCHANGED <<svars, answer, confidence, context, question, profiles, reply, extracted>>

\* The upstream batch holds one more item, which has no message.
AddInvalidItem ==
    /\ context = ""
    /\ batch.shape # "other"
    /\ Len(batch.items) < MaxItems
    /\ Count(batch.items, IsInvalid) < MaxInvalid
    /\ batch' = [batch EXCEPT !.items = Append(@, InvalidItem(Member1))]
    /\ UNCHANGED <<svars, answer, confidence, context, question, profiles, reply, extracted>>

\* ask_question line 274: context = ai_qa.prepare_context_for_ai(member_data)
BuildContext ==
    /\ context = ""
    /\ context' = prepare_context_for_ai(batch)
    /\ UNCHANGED <<svars, answer, confidence, batch, question, profiles, reply, extracted>>

NextCtx ==
    \/ \E u \in {Member1, Member2} : AddItem(u)
    \/ AddInvalidItem
    \/ BuildContext

SpecCtx == InitCtx /\ [][NextCtx]_vars

\* The lines of a text: what stands between its line breaks.
Lines(s) ==
    LET breaks == {i \in 1..Len(s) : Chr(s, i) = "\n"}
        n == Cardinality(breaks)
        From(k) == IF k = 1 THEN 1 ELSE Nth(breaks, k - 1) + 1
        To(k) == IF k = n + 1 THEN Len(s) ELSE Nth(breaks, k) - 1
    IN  [k \in 1..(n + 1) |-> SubSeq(s, From(k), To(k))]

\* The positions in the batch of the messages of member u, in batch order.
RECURSIVE PositionsOf(_, _, _)
PositionsOf(items, u, i) ==
    IF i > Len(items) THEN <<>>
    ELSE (IF items[i].user_name = u /\ items[i].message # None THEN <<i>> ELSE <<>>)
         \o PositionsOf(items, u, i + 1)

\* The line the context is to hold for the message at position k of the batch.
ExpectedLine(k) ==
    "[" \o (IF k % 5 = 0 THEN "Unknown date" ELSE "2025-01-" \o TwoDigits(28 - k)) \o "] "
    \o "message " \o ToString(k)

\* The lines of the context that follow the header of member u, up to the
\* blank line that ends the section.
SectionBody(ls, u) ==
    LET h == CHOOSE i \in 1..Len(ls) : ls[i] = "MEMBER: " \o u
        e == CHOOSE j \in (h + 1)..Len(ls) : ls[j] = "" /\ \A x \in (h + 1)..(j - 1) : ls[x] # ""
    IN  SubSeq(ls, h + 2, e - 1)

HasSection(ls, u) == \E i \in 1..Len(ls) : ls[i] = "MEMBER: " \o u

\* The section of member u holds the lines of u's first min(n, 10)
\* messages in batch order and then, exactly when n > 10, one line `rest`
\* applied to n - 10.
SectionBounded(u, rest(_)) ==
    LET ls == Lines(context)
        pos == PositionsOf(batch.items, u, 1)
        n == Len(pos)
        body == SectionBody(ls, u)
    IN  /\ HasSection(ls, u) <=> n > 0
        /\ n > 0 =>
            /\ Len(body) = Min(n, 10) + (IF n > 10 THEN 1 ELSE 0)
            /\ \A i \in 1..Min(n, 10) : body[i] = ExpectedLine(pos[i])
            /\ n > 10 => body[11] = rest(n - 10)

RestAsClaimed(k) == "...and " \o ToString(k) \o " more messages"
RestAsEmitted(k) == "... and " \o ToString(k) \o " more messages"

Built == context # "" /\ batch.shape # "other"

\* C9 as claimed: each member's section holds the member's first
\* min(n, 10) messages in batch order and, exactly when n > 10, the line
\* "...and <n - 10> more messages".
C9_ContextBoundedAsClaimed ==
    Built => \A u \in {Member1, Member2} : SectionBounded(u, RestAsClaimed)

\* C9 amended: the same, the remainder line reading
\* "... and <n - 10> more messages" (a space follows the dots).
C9_ContextBounded ==
    Built => \A u \in {Member1, Member2} : SectionBounded(u, RestAsEmitted)

\* A context was built from a batch with one member and 12 messages: it
\* holds ten message lines and the line "... and 2 more messages".
C9_Witness ==
    /\ Built
    /\ Len(PositionsOf(batch.items, Member1, 1)) = 12
    /\ Len(PositionsOf(batch.items, Member2, 1)) = 0
    /\ Len(SectionBody(Lines(context), Member1)) = 11
    /\ SectionBody(Lines(context), Member1)[11] = "... and 2 more messages"

-----------------------------------------------------------------------------
(* Regular expressions of find_member_name (src/main1.py), matched on the  *)
(* characters of the question as re.search does: the leftmost start, and   *)
(* at that start the longest repetition that lets the rest match.           *)

\* The character at position i, "" outside the string.
CharAt(s, i) == IF i >= 1 /\ i <= Len(s) THEN Chr(s, i) ELSE ""

\* \w
IsWordChr(c) == isupper(c) \/ islower(c) \/ isdigit(c) \/ c = "_"

\* \b between positions i - 1 and i.
Boundary(s, i) == IsWordChr(CharAt(s, i - 1)) # IsWordChr(CharAt(s, i))

\* The literal p stands at position i.
StartsAt(s, i, p) == i >= 1 /\ i + Len(p) - 1 <= Len(s) /\ SubSeq(s, i, i + Len(p) - 1) = p

\* The end of the longest run of characters of class P from position i on
\* (i - 1 when there is none).
RunEnd(s, i, P(_)) ==
    LET stops == {x \in i..Len(s) : ~P(Chr(s, x))}
    IN  IF i > Len(s) THEN i - 1
        ELSE IF stops = {} THEN Len(s)
        ELSE (CHOOSE x \in stops : \A y \in stops : x <= y) - 1

\* [a-z-']
IsNameChr(c) == islower(c) \/ c = "-" \/ c = "'"

\* The span of group 1 of a match; NoMatch when the pattern does not match.
NoMatch == [found |-> FALSE, first |-> 0, last |-> 0]
Match(first, last) == [found |-> TRUE, first |-> first, last |-> last]

SetMin(S) == CHOOSE x \in S : \A y \in S : x <= y
SetMax(S) == CHOOSE x \in S : \A y \in S : y <= x

\* [A-Z][a-z]+ at position i, the lowercase letters running up to e.
FirstNameUpTo(s, i, e) ==
    IF isupper(CharAt(s, i)) /\ e >= i + 1 THEN Match(i, e) ELSE NoMatch

\* [A-Z][a-z]+ at position i: the span of the longest match.
FirstName(s, i) == FirstNameUpTo(s, i, RunEnd(s, i + 1, islower))

\* The longest of the admissible ends of a match that starts at i.
LongestFrom(i, ends) == IF ends = {} THEN NoMatch ELSE Match(i, SetMax(ends))

\* " [A-Z][a-z-']+" after a first name at i that ends at last (0: there is
\* no first name), followed by \b when bounded.
LastNameAfter(s, i, last, bounded) ==
    IF last = 0 \/ CharAt(s, last + 1) # " " \/ ~isupper(CharAt(s, last + 2))
    THEN NoMatch
    ELSE LongestFrom(i, {e \in (last + 3)..RunEnd(s, last + 3, IsNameChr) :
                            bounded => Boundary(s, e + 1)})

\* [A-Z][a-z]+ [A-Z][a-z-']+ at position i, followed by \b when bounded.
FullName(s, i, bounded) == LastNameAfter(s, i, FirstName(s, i).last, bounded)

\* (?:a|b) at position i: the position that follows, 0 when no match.
KeywordEnd(s, i, a, b) ==
    IF StartsAt(s, i, a) THEN i + Len(a)
    ELSE IF StartsAt(s, i, b) THEN i + Len(b) ELSE 0

\* \s+ at position k, the whitespace running up to e: the position that
\* follows, 0 when no match.
SpaceUpTo(k, e) == IF k = 0 \/ e < k THEN 0 ELSE e + 1

\* \s+ at position k (0: nothing matched before).
SkipSpace(s, k) == SpaceUpTo(k, IF k = 0 THEN 0 ELSE RunEnd(s, k, isspace))

\* (?:a|b)\s+ at position i: the position that follows, 0 when no match.
AfterKeyword(s, i, a, b) == SkipSpace(s, KeywordEnd(s, i, a, b))

verbs == <<"planning", "has", "have", "own", "owns", "like", "likes", "is", "'s">>

\* (?:planning|has|have|owns?|likes?|is|'s)\b at position j (0: no match
\* before).
VerbAt(s, j) ==
    /\ j > 0
    /\ \E v \in 1..Len(verbs) : StartsAt(s, j, verbs[v]) /\ Boundary(s, j + Len(verbs[v]))

\* The first name f, when it is followed by \s+ and a verb.
NameBeforeVerb(s, f) ==
    IF f.found /\ VerbAt(s, SkipSpace(s, f.last + 1)) THEN f ELSE NoMatch

\* The first name f, when it is followed by 's\b.
NameBeforePossessive(s, f) ==
    IF f.found /\ StartsAt(s, f.last + 1, "'s") /\ Boundary(s, f.last + 3)
    THEN f ELSE NoMatch

\* The first name f, when it is followed by \b.
NameBeforeBoundary(s, f) == IF f.found /\ Boundary(s, f.last + 1) THEN f ELSE NoMatch

\* A full name at position j (0: no match before).
FullNameIf(s, j, bounded) == IF j > 0 THEN FullName(s, j, bounded) ELSE NoMatch

\* A first name at position j (0: no match before).
FirstNameIf(s, j) == IF j > 0 THEN FirstName(s, j) ELSE NoMatch

NumPatterns == 7

\* The k-th pattern of name_patterns matched at position i: the span of
\* group 1.
PatternAt(k, s, i) ==
    CASE k = 1 ->
            IF Boundary(s, i) THEN FullName(s, i, TRUE) ELSE NoMatch
      [] k = 2 ->
            IF Boundary(s, i) THEN NameBeforeVerb(s, FirstName(s, i)) ELSE NoMatch
      [] k = 3 ->
            IF Boundary(s, i)
            THEN FullNameIf(s, AfterKeyword(s, i, "is", "does"), TRUE) ELSE NoMatch
      [] k = 4 ->
            IF Boundary(s, i)
            THEN NameBeforeBoundary(s, FirstNameIf(s, AfterKeyword(s, i, "is", "does")))
            ELSE NoMatch
      [] k = 5 ->
            IF Boundary(s, i) THEN NameBeforePossessive(s, FirstName(s, i)) ELSE NoMatch
      [] k = 6 -> FullNameIf(s, AfterKeyword(s, i, "about", "of"), FALSE)
      [] k = 7 -> FirstNameIf(s, AfterKeyword(s, i, "about", "of"))

\* Group 1 of the match with the leftmost of the starts, None when there
\* is none.
LeftmostGroup(s, at, starts) ==
    IF starts = {} THEN None
    ELSE SubSeq(s, at[SetMin(starts)].first, at[SetMin(starts)].last)

\* at[i] is the match at position i.
LeftmostOf(s, at) == LeftmostGroup(s, at, {i \in DOMAIN at : at[i].found})

\* re.search(name_patterns[k], s).group(1), None when there is no match.
re_search(k, s) == LeftmostOf(s, [i \in 1..Len(s) |-> PatternAt(k, s, i)])

RECURSIVE RemoveAll(_, _)
\* s.replace(p, "")
RemoveAll(s, p) ==
    IF Len(s) < Len(p) THEN s
    ELSE IF StartsAt(s, 1, p) THEN RemoveAll(SubSeq(s, Len(p) + 1, Len(s)), p)
    ELSE Head(s) \o RemoveAll(Tail(s), p)

\* The keys of the profiles, in dict order.
Keys(data) == [k \in 1..Len(data) |-> data[k].name]

\* The elements of a list.
Range(xs) == {xs[k] : k \in 1..Len(xs)}

\* Lines 292-294, on the lower-cased parts.
PartsMatch(p_part, m_part) ==
    p_part = m_part \/ Contains(m_part, p_part) \/ Contains(p_part, m_part)

\* Lines 287-295: some part of the candidate and some part of the member
\* name are equal or contain one another, ignoring case.
FuzzyMatch(potential_name, member_name) ==
    \E p_part \in Range(split(potential_name)), m_part \in Range(split(member_name)) :
        PartsMatch(lower(p_part), lower(m_part))

RECURSIVE FindFromPattern(_, _, _)

FirstFuzzyOrNone(q, data, k, fuzzy) ==
    IF fuzzy # {} THEN data[SetMin(fuzzy)].name ELSE None

\* Lines 285-295: the first member that matches fuzzily; the next pattern
\* when there is none.
FirstFuzzy(q, data, k, fuzzy) ==
    IF fuzzy # {} THEN data[SetMin(fuzzy)].name ELSE FindFromPattern(q, data, k + 1)

\* Lines 280-295: exact match first, then fuzzy matching.
MatchMember(q, data, k, potential_name) ==
    IF \E m \in 1..Len(data) : data[m].name = potential_name
    THEN potential_name
    ELSE FirstFuzzy(q, data, k,
                    {m \in 1..Len(data) : FuzzyMatch(potential_name, data[m].name)})

\* Lines 277-278: the candidate of a match g, the next pattern when there
\* is no match.
FromMatch(q, data, k, g) ==
    IF g = None THEN FindFromPattern(q, data, k + 1)
    ELSE MatchMember(q, data, k, RemoveAll(g, "'s"))

\* The loop over name_patterns from the k-th pattern on.
FindFromPattern(q, data, k) ==
    IF k > NumPatterns THEN None ELSE FromMatch(q, data, k, re_search(k, q))

\* find_member_name(question, data)
find_member_name(q, data) == FindFromPattern(q, data, 1)

-----------------------------------------------------------------------------
(* search_member_data (src/main1.py).  A profile is a record with the      *)
(* member's name, the extracted lists and the number of messages.           *)

\* xs[:n]
Take(xs, n) == SubSeq(xs, 1, Min(n, Len(xs)))

\* any(word in question_lower for word in words)
AnyIn(words, text) == \E w \in 1..Len(words) : Contains(text, words[w])

restaurant_words == <<"restaurant", "restaurants", "dining", "eat", "food", "table">>
travel_words == <<"trip", "travel", "visit", "vacation", "where", "location">>
preference_words == <<"prefer", "preference", "like", "favorite">>
activity_words == <<"activity", "activities", "tickets", "event", "show">>
vehicle_words == <<"car", "cars", "vehicle", "how many">>

RestaurantAnswer(target_name, member_info) ==
    IF member_info.restaurants # <<>>
    THEN target_name \o " has made reservations at: "
         \o join(", ", Take(member_info.restaurants, 5)) \o "."
    ELSE "I don't have restaurant reservation information for " \o target_name \o "."

TravelAnswer(target_name, member_info) ==
    IF member_info.locations # <<>>
    THEN target_name \o " has traveled to or mentioned: "
         \o join(", ", Take(member_info.locations, 5)) \o "."
    ELSE IF member_info.travel # <<>>
    THEN target_name \o "'s travel activities: "
         \o join(", ", Take(member_info.travel, 3)) \o "."
    ELSE "I don't have travel information for " \o target_name \o "."

PreferenceAnswer(target_name, member_info) ==
    IF member_info.preferences # <<>>
    THEN target_name \o "'s preferences: "
         \o join(", ", Take(member_info.preferences, 3)) \o "."
    ELSE "I don't have preference information for " \o target_name \o "."

ActivityAnswer(target_name, member_info) ==
    IF member_info.activities # <<>>
    THEN target_name \o " has requested tickets/activities for: "
         \o join(", ", Take(member_info.activities, 3)) \o "."
    ELSE "I don't have activity information for " \o target_name \o "."

VehicleAnswer(target_name, member_info) ==
    "I don't have vehicle ownership information for " \o target_name
    \o " in the current dataset."

GeneralAnswer(target_name, member_info) ==
    LET all_info ==
            (IF member_info.restaurants # <<>>
             THEN <<"restaurants: " \o join(", ", Take(member_info.restaurants, 2))>> ELSE <<>>)
            \o (IF member_info.locations # <<>>
                THEN <<"locations: " \o join(", ", Take(member_info.locations, 2))>> ELSE <<>>)
            \o (IF member_info.preferences # <<>>
                THEN <<"preferences: " \o join(", ", Take(member_info.preferences, 2))>>
                ELSE <<>>)
    IN  IF all_info # <<>>
        THEN "Here's what I know about " \o target_name \o ": "
             \o join("; ", Take(all_info, 3)) \o "."
        ELSE "I have " \o ToString(member_info.messages) \o " messages from " \o target_name
             \o ", but no specific categorized information extracted yet."

\* Lines 198-203: no member was identified.
NoMemberAnswer(data) ==
    IF Len(data) > 0
    THEN "I couldn't identify which member you're asking about. Available members: "
         \o join(", ", Take(Keys(data), 10)) \o (IF Len(data) > 10 THEN "..." ELSE "")
    ELSE "No member data is currently available."

\* Lines 208-258 with the travel test before the restaurant test.
AnswerAboutTravelFirst(question_lower, target_name, member_info) ==
    IF AnyIn(travel_words, question_lower) THEN TravelAnswer(target_name, member_info)
    ELSE IF AnyIn(restaurant_words, question_lower) THEN RestaurantAnswer(target_name, member_info)
    ELSE IF AnyIn(preference_words, question_lower) THEN PreferenceAnswer(target_name, member_info)
    ELSE IF AnyIn(activity_words, question_lower) THEN ActivityAnswer(target_name, member_info)
    ELSE IF AnyIn(vehicle_words, question_lower) THEN VehicleAnswer(target_name, member_info)
    ELSE GeneralAnswer(target_name, member_info)

\* Lines 208-258: the if/elif chain over the keyword sets.
AnswerAbout(question_lower, target_name, member_info) ==
    IF AnyIn(restaurant_words, question_lower) THEN RestaurantAnswer(target_name, member_info)
    ELSE IF AnyIn(travel_words, question_lower) THEN TravelAnswer(target_name, member_info)
    ELSE IF AnyIn(preference_words, question_lower) THEN PreferenceAnswer(target_name, member_info)
    ELSE IF AnyIn(activity_words, question_lower) THEN ActivityAnswer(target_name, member_info)
    ELSE IF AnyIn(vehicle_words, question_lower) THEN VehicleAnswer(target_name, member_info)
    ELSE GeneralAnswer(target_name, member_info)

\* Lines 198-258: the answer once the member is looked up.
AnswerFor(question_lower, data, target_name) ==
    IF target_name = None THEN NoMemberAnswer(data)
    ELSE AnswerAbout(question_lower, target_name,
                     data[CHOOSE m \in 1..Len(data) : data[m].name = target_name])

\* search_member_data(question, data)
search_member_data(q, data) == AnswerFor(lower(q), data, find_member_name(q, data))

MaxQuestionWords == 3

\* Words the questions are made of.
QuestionWords ==
    {"Maria's", "about", "Bo", "car", "trip", "weather", "favorite", "show"}

\* Questions: those of the spec's examples and every sentence of at most
\* MaxQuestionWords words.
Questions ==
    {"How many cars does Maria Lopez have?", "What restaurants does John Smith like?",
     "Where does Maria like to eat?", "Tell me about Bo Diaz", "what is the weather",
     "Ask Zed about Maria's trip"}
    \cup {join(" ", ws) : ws \in SeqUpTo(QuestionWords, MaxQuestionWords) \ {<<>>}}

Profile(name, restaurants, locations, travel, preferences, activities, messages) ==
    [name |-> name, restaurants |-> restaurants, locations |-> locations, travel |-> travel,
     preferences |-> preferences, activities |-> activities, messages |-> messages]

\* The profile sets: no member; two members, the first with entries in
\* every list and the second with none.
ProfileSets ==
    { <<>>,
      << Profile("Maria Lopez", <<"Nobu", "Le Bernardin">>, <<"Paris">>, <<"Trip to Paris">>,
                 <<"window seats">>, <<"the opera">>, 4),
         Profile("Bo Diaz", <<>>, <<>>, <<>>, <<>>, <<>>, 1) >>,
      << Profile("John Smith", <<>>, <<>>, <<"Trip to Rome">>, <<>>, <<"Wimbledon">>, 2),
         Profile("Maria Lopez", <<>>, <<"Tokyo">>, <<"Trip to Tokyo">>, <<>>, <<>>, 3) >> }

InitSearch ==
    /\ strategy = "B" /\ key_set = FALSE
    /\ member_data_cache = "{}" /\ cache_last_updated = NoTime /\ clock = 0
    /\ pc = [r \in Requests |-> "fetched"]
    /\ now = [r \in Requests |-> 0]
    /\ member_data = [r \in Requests |-> "{}"]
    /\ result = [r \in Requests |-> NoResult]
    /\ gets = [r \in Requests |-> 0]
    /\ posts = [r \in Requests |-> 0]
    /\ cause = [r \in Requests |-> NoCause]
    /\ answer = "" /\ confidence = 0
    /\ batch = NoBatch /\ context = ""
    /\ question \in Questions
    /\ profiles \in ProfileSets
    /\ reply = ""
    /\ extracted = NoMember

\* ask_question (main1.py) line 318:
\* answer = analyzer.search_member_data(request.question, member_data)
SearchMemberData ==
    /\ reply = ""
    /\ reply' = search_member_data(question, profiles)
    /\ UNCHANGED <<svars, answer, confidence, batch, context, question, profiles, extracted>>

NextSearch == SearchMemberData

SpecSearch == InitSearch /\ [][NextSearch]_vars

-----------------------------------------------------------------------------
(* Claims about search_member_data, checked under SpecSearch.               *)

\* The keyword sets in the order of the spec: restaurant/dining, travel,
\* preference, activity, vehicle.
KeywordSets ==
    <<restaurant_words, travel_words, preference_words, activity_words, vehicle_words>>

\* The sets with a keyword that occurs in the lower-cased question.
SetsHit ==
    LET question_lower == lower(question)
    IN  {k \in 1..Len(KeywordSets) : AnyIn(KeywordSets[k], question_lower)}

\* The earliest of the sets hit.
Earliest(hit) == SetMin(hit)

\* The answer the k-th set gives about a member.
AnswerOfSet(k, target_name, member_info) ==
    CASE k = 1 -> RestaurantAnswer(target_name, member_info)
      [] k = 2 -> TravelAnswer(target_name, member_info)
      [] k = 3 -> PreferenceAnswer(target_name, member_info)
      [] k = 4 -> ActivityAnswer(target_name, member_info)
      [] k = 5 -> "I don't have vehicle ownership information for " \o target_name
                  \o " in the current dataset."

\* The profile of a member.
InfoOf(target_name) ==
    profiles[CHOOSE m \in 1..Len(profiles) : profiles[m].name = target_name]

\* C10: for a question whose member resolves, search_member_data answers
\* from the first keyword set, in the order restaurant/dining, travel,
\* preference, activity, vehicle, that has a keyword occurring as a
\* substring of the lower-cased question: a question hitting several sets
\* gets the answer of the earliest, the vehicle set gives the fixed
\* sentence about vehicle ownership, and a question hitting no set gets the
\* general-info answer.
C10_KeywordPriority ==
    reply # "" =>
        LET target_name == find_member_name(question, profiles)
            hit == SetsHit
            expected(k) == AnswerOfSet(k, target_name, InfoOf(target_name))
        IN  target_name # None =>
                IF hit = {} THEN reply = GeneralAnswer(target_name, InfoOf(target_name))
                ELSE /\ reply = expected(Earliest(hit))
                     /\ \A k \in hit :
                            expected(k) # expected(Earliest(hit)) => reply # expected(k)

\* A question about a resolved member that hits the restaurant set, the
\* travel set and the preference set ("Where does Maria like to eat?") was
\* answered with the member's reservations.
C10_Witness ==
    /\ reply # ""
    /\ {1, 2, 3} \subseteq SetsHit
    /\ LET target_name == find_member_name(question, profiles)
       IN  /\ target_name # None
           /\ InfoOf(target_name).restaurants # <<>>
           /\ reply = RestaurantAnswer(target_name, InfoOf(target_name))

-----------------------------------------------------------------------------
(* Frame and timestamp of the cache write, checked under Spec.              *)

\* The fetch_member_data call of request r ends in an error in this step.
FetchFails(r) == pc[r] = "get" /\ pc'[r] = "failed"

\* The fetch_member_data call of request r writes the cache in this step.
FetchStores(r) == pc[r] = "get" /\ pc'[r] = "fetched"

\* C15: when fetch_member_data ends in an error (timeout, connection
\* error, non-2xx status, unparsable body, or in main1.py an exception while
\* the body is processed), member_data_cache and cache_last_updated keep
\* their values, and the caller gets an error and no data: neither a valid
\* entry is lost nor an expired one served.
C15_FailedFetchKeepsCache ==
    [][\A r \in Requests :
         FetchFails(r) =>
            /\ member_data_cache' = member_data_cache
            /\ cache_last_updated' = cache_last_updated
            /\ result'[r].status \in {500, 502, 504}
            /\ member_data'[r] = "{}"]_vars

\* A fetch failed while the entry another call wrote is stored and still
\* valid.
C15_Witness ==
    \E r, q \in Requests :
        /\ r # q
        /\ FetchFailed(r)
        /\ pc[q] = "fetched" /\ gets[q] = 1 /\ member_data[q] = member_data_cache
        /\ CacheValid(clock)

\* C16: the timestamp stored with an entry is the time read at the start
\* of the fetch_member_data call that writes it, not the time of the
\* write: the call leaves its own data and its own start time in the cache,
\* also when a call that started later has already stored a later time
\* (cache_last_updated then moves backwards), and the entry is valid until
\* 10 minutes after that start.
C16_StoredTimestampIsStartTime ==
    [][\A r \in Requests :
         FetchStores(r) =>
            /\ cache_last_updated' = now[r]
            /\ member_data_cache' = member_data'[r]
            /\ (cache_last_updated # NoTime /\ now[r] < cache_last_updated)
                  => cache_last_updated' < cache_last_updated
            /\ \A t \in {k * TickSeconds : k \in 0..MaxTicks} :
                  (CacheValid(t))' <=> (member_data_cache' # "{}" /\ t - now[r] < 600)]_vars

\* Two misses overlap: the GET of request r is still pending, and the
\* request that started after r has already stored its data with its later
\* start time, which is earlier than the time of its write.
C16_Witness ==
    \E r, q \in Requests :
        /\ pc[r] = "get" /\ pc[q] = "fetched" /\ gets[q] = 1
        /\ member_data[q] = member_data_cache
        /\ cache_last_updated # NoTime
        /\ now[r] < cache_last_updated
        /\ cache_last_updated < clock

-----------------------------------------------------------------------------
(* The request state machine of strategy A, checked under SpecFair.         *)

\* The state of the request state machine for a position in ask_question.
PhaseOf(position) ==
    CASE position \in {"start", "get", "fetched"} -> "NEED_CONTEXT"
      [] position = "post" -> "NEED_COMPLETION"
      [] position = "done" -> "DONE"
      [] position = "failed" -> "FAILED"

\* The transitions of the state machine.
PhaseSteps ==
    {<<"NEED_CONTEXT", "NEED_COMPLETION">>, <<"NEED_CONTEXT", "FAILED">>,
     <<"NEED_COMPLETION", "DONE">>, <<"NEED_COMPLETION", "FAILED">>}

\* One step of request r follows the state machine.
PhaseStep(r) ==
    LET from == PhaseOf(pc[r])
        to == PhaseOf(pc'[r])
    IN  /\ from # to => <<from, to>> \in PhaseSteps
        /\ posts'[r] # posts[r] =>
              /\ pc[r] = "fetched" /\ to = "NEED_COMPLETION"
              /\ ContextRaises(member_data[r]) = None
              /\ posts'[r] = posts[r] + 1
        /\ (from # to /\ to = "NEED_COMPLETION") => posts'[r] = posts[r] + 1
        /\ (from # to /\ to = "DONE") => result'[r].status = 200
        /\ (from # to /\ to = "FAILED") => result'[r].status \notin {0, 200}
        /\ from \in {"DONE", "FAILED"} =>
              /\ pc'[r] = pc[r] /\ result'[r] = result[r]
              /\ gets'[r] = gets[r] /\ posts'[r] = posts[r]

\* C11: every strategy A request moves through NEED_CONTEXT, then
\* NEED_COMPLETION, then DONE in that order; the completion request is sent
\* only after the fetch (or cache hit) returned and the context was built;
\* a failure at any step moves the request to FAILED, from which no later
\* step runs and no answer is returned; DONE and FAILED are terminal, and
\* every request reaches one of them.
C11_RequestStateMachine ==
    /\ [][strategy = "A" => \A r \in Requests : PhaseStep(r)]_vars
    /\ strategy = "A" => <>(\A r \in Requests : pc[r] \in {"done", "failed"})

\* One strategy A request was answered after its completion call and
\* another failed before any completion call was sent.
C11_Witness ==
    /\ strategy = "A"
    /\ \E r, q \in Requests :
        /\ pc[r] = "done" /\ posts[r] = 1 /\ result[r].status = 200
        /\ pc[q] = "failed" /\ posts[q] = 0 /\ result[q].status = 500

\* The candidate the k-th pattern yields for the question: group 1 of its
\* leftmost match without the "'s", None when the pattern does not match.
Candidate(k) ==
    LET g == re_search(k, question)
    IN  IF g = None THEN None ELSE RemoveAll(g, "'s")

\* A token of the candidate and a token of the key are equal, or one
\* contains the other, ignoring case.
SharesToken(candidate, key) ==
    \E a \in Range(split(candidate)), b \in Range(split(key)) :
        \/ lower(a) = lower(b)
        \/ Contains(lower(a), lower(b))
        \/ Contains(lower(b), lower(a))

\* The profile key a candidate stands for: the candidate itself when it is
\* a key, otherwise the first key in profile order that shares a token
\* with it, None when there is none.
KeyFor(candidate) ==
    LET sharing == {m \in 1..Len(profiles) : SharesToken(candidate, profiles[m].name)}
    IN  IF \E m \in 1..Len(profiles) : profiles[m].name = candidate THEN candidate
        ELSE IF sharing = {} THEN None
        ELSE profiles[SetMin(sharing)].name

\* The patterns that yield a candidate that stands for a profile key.
Winners == {k \in 1..NumPatterns : Candidate(k) # None /\ KeyFor(Candidate(k)) # None}

\* C14: find_member_name tries the patterns in their fixed order and the
\* first pattern whose candidate matches a known name, verbatim or by a
\* shared token, decides: the result is the candidate when it is a profile
\* key, otherwise the first profile key that shares a token with it; a
\* pattern whose candidate matches no known name does not end the search;
\* the result is a profile key or no match, and no match exactly when no
\* pattern yields a candidate that matches a known name.
C14_NameResolver ==
    reply # "" =>
        LET found == find_member_name(question, profiles)
        IN  /\ found \in Range(Keys(profiles)) \cup {None}
            /\ found = IF Winners = {} THEN None ELSE KeyFor(Candidate(SetMin(Winners)))
            /\ found = None <=> reply = NoMemberAnswer(profiles)

\* The first pattern yields a candidate that matches no known name ("Ask
\* Zed") and a later pattern resolves the member by a shared token.
C14_Witness ==
    /\ reply # ""
    /\ Candidate(1) # None /\ KeyFor(Candidate(1)) = None
    /\ Winners # {}
    /\ find_member_name(question, profiles) \notin {None, Candidate(SetMin(Winners))}

-----------------------------------------------------------------------------
(* extract_info_from_message (src/main1.py).  Its patterns are matched as  *)
(* re.findall(pattern, message, re.IGNORECASE) does: the literal parts on   *)
(* the lower-cased message, the matches from left to right without          *)
(* overlap, every repetition as long as the rest of the pattern allows.     *)

\* .
NotNewline(c) == c # "\n"

\* [\w\s]
IsWordOrSpace(c) == IsWordChr(c) \/ isspace(c)

\* A pattern: the literal head, .* when gap, the literal mid, the group of
\* class cls ("w": \w+, "ws": [\w\s]+, "pair": \w+\s+\w+), .* when tailgap,
\* the literal tail.
Pattern(head, gap, mid, cls, tailgap, tail) ==
    [head |-> head, gap |-> gap, mid |-> mid, cls |-> cls, tailgap |-> tailgap,
     tail |-> tail]
Simple(head, cls) == Pattern(head, FALSE, "", cls, FALSE, "")
Gapped(head, mid, cls) == Pattern(head, TRUE, mid, cls, FALSE, "")

travel_patterns ==
    << Simple("trip to ", "w"), Simple("travel to ", "w"), Simple("visit ", "w"),
       Simple("going to ", "w"), Gapped("tickets to", "in ", "w"),
       Simple("villa in ", "w"), Gapped("tour of ", "", "w"),
       Simple("weekend in ", "w") >>

restaurant_patterns ==
    << Gapped("dinner", "at ", "ws"), Gapped("table", "at ", "ws"),
       Simple("reservation at ", "ws"), Simple("restaurant ", "ws") >>

preference_patterns ==
    << Simple("prefer ", "ws"), Simple("preference for ", "ws"),
       Gapped("i", "like ", "ws"),
       Pattern("ensure ", FALSE, "", "ws", FALSE, " next time") >>

activity_patterns ==
    << Simple("tickets to ", "ws"), Simple("passes for ", "ws"),
       Simple("seats for ", "ws"), Pattern("book", TRUE, "", "pair", TRUE, "for"),
       Gapped("arrange", "", "pair") >>

\* The position after a run that starts at k and ends at e, 0 when the run
\* is empty or nothing matched before (k = 0).
RunPast(k, e) == IF k = 0 \/ e < k THEN 0 ELSE e + 1

\* \w+ at position k: the position that follows, 0 when no match.
SkipWord(s, k) == RunPast(k, IF k = 0 THEN 0 ELSE RunEnd(s, k, IsWordChr))

\* The literal p (possibly empty) stands at position i of the lower-cased
\* message.
LiteralAt(ls, i, p) == p = "" \/ StartsAt(ls, i, p)

\* The positions where the tail can start after a group that ends at e.
TailStarts(pat, s, ls, e) ==
    IF pat.tailgap
    THEN {q \in (e + 1)..(RunEnd(s, e + 1, NotNewline) + 1) : LiteralAt(ls, q, pat.tail)}
    ELSE IF LiteralAt(ls, e + 1, pat.tail) THEN {e + 1} ELSE {}

\* Where the last repetition of a group at g starts: g itself, and for
\* \w+\s+\w+ the second word (0 when there is none).
LastRunStart(pat, s, g) ==
    IF pat.cls = "pair" THEN SkipSpace(s, SkipWord(s, g)) ELSE g

\* The end of the longest last repetition from h on.
LastRunEnd(pat, s, h) ==
    IF pat.cls = "ws" THEN RunEnd(s, h, IsWordOrSpace) ELSE RunEnd(s, h, IsWordChr)

\* The ends a group whose last repetition starts at h can have.
EndsFrom(pat, s, ls, h) ==
    IF h = 0 THEN {}
    ELSE {e \in h..LastRunEnd(pat, s, h) : TailStarts(pat, s, ls, e) # {}}

\* The ends a group at g can have.
GroupEnds(pat, s, ls, g) == EndsFrom(pat, s, ls, LastRunStart(pat, s, g))

\* The positions where the group can start when the head ends before a.
GroupStarts(pat, s, ls, a) ==
    IF pat.gap
    THEN {p + Len(pat.mid) :
            p \in {p \in a..(RunEnd(s, a, NotNewline) + 1) : LiteralAt(ls, p, pat.mid)}}
    ELSE {a}

NoFind == [found |-> FALSE, first |-> 0, last |-> 0, stop |-> 0]

\* The match whose group is g..e: it stops with the group, or with the
\* last place the tail can stand at.
FoundTo(pat, s, ls, g, e) ==
    [found |-> TRUE, first |-> g, last |-> e,
     stop |-> IF pat.tail = "" THEN e
              ELSE SetMax(TailStarts(pat, s, ls, e)) + Len(pat.tail) - 1]

\* The match with the group at g: the longest group.
FoundFrom(pat, s, ls, g) == FoundTo(pat, s, ls, g, SetMax(GroupEnds(pat, s, ls, g)))

\* The match with the latest of the group starts (.* is greedy).
LatestOf(pat, s, ls, starts) ==
    IF starts = {} THEN NoFind ELSE FoundFrom(pat, s, ls, SetMax(starts))

\* The match of the pattern at position i.
FindAt(pat, s, ls, i) ==
    IF ~StartsAt(ls, i, pat.head) THEN NoFind
    ELSE LatestOf(pat, s, ls, {g \in GroupStarts(pat, s, ls, i + Len(pat.head)) :
                                   GroupEnds(pat, s, ls, g) # {}})

RECURSIVE FindAllFrom(_, _, _, _)

\* The group of the match m, then the matches after it.
Collect(pat, s, ls, m) ==
    <<SubSeq(s, m.first, m.last)>> \o FindAllFrom(pat, s, ls, m.stop + 1)

\* The matches from the leftmost of the starts on.
FromLeftmost(pat, s, ls, starts) ==
    IF starts = {} THEN <<>> ELSE Collect(pat, s, ls, FindAt(pat, s, ls, SetMin(starts)))

\* The groups of the matches that start at pos or later.
FindAllFrom(pat, s, ls, pos) ==
    FromLeftmost(pat, s, ls, {i \in pos..Len(s) : FindAt(pat, s, ls, i).found})

\* re.findall(pattern, message, re.IGNORECASE)
findall(pat, s) == FindAllFrom(pat, s, lower(s), 1)

RECURSIVE Without(_, _, _, _)
\* The characters lo..hi of s without those at the positions drop.
Without(s, lo, hi, drop) ==
    IF lo > hi THEN ""
    ELSE IF lo = hi THEN (IF lo \in drop THEN "" ELSE Chr(s, lo))
    ELSE Without(s, lo, (lo + hi) \div 2, drop)
         \o Without(s, (lo + hi) \div 2 + 1, hi, drop)

\* The text between the first and the last of the positions kept.
Between(s, kept) == IF kept = {} THEN "" ELSE SubSeq(s, SetMin(kept), SetMax(kept))

\* str.strip()
strip(s) == Between(s, {i \in 1..Len(s) : ~isspace(Chr(s, i))})

cleanup_words == <<"for", "on", "tonight", "this", "next", "the">>

\* \b(for|on|tonight|this|next|the)\b matches at position i and covers
\* position x.
WordCovers(s, ls, i, x) ==
    /\ Boundary(s, i)
    /\ \E w \in 1..Len(cleanup_words) :
          /\ StartsAt(ls, i, cleanup_words[w])
          /\ Boundary(s, i + Len(cleanup_words[w]))
          /\ x < i + Len(cleanup_words[w])

\* The positions of s that a match of the clean-up pattern covers.
Covered(s, ls) == {x \in 1..Len(s) : \E i \in 1..x : WordCovers(s, ls, i, x)}

\* re.sub(r'\b(for|on|tonight|this|next|the)\b', '', s, flags=re.IGNORECASE)
RemoveWords(s) == Without(s, 1, Len(s), Covered(s, lower(s)))

\* Line 153: the restaurant name of a match.
CleanName(match) == strip(RemoveWords(strip(match)))

\* Lines 137-139: a location not yet present, ignoring case, is appended
\* and mirrored into travel.
AddLocation(md, match) ==
    IF \E loc \in Range(md.locations) : lower(loc) = lower(match) THEN md
    ELSE [md EXCEPT !.locations = Append(@, match),
                    !.travel = Append(@, "Trip to " \o match)]

AddRestaurantNoCheck(md, restaurant) ==
    IF Len(restaurant) > 3
    THEN [md EXCEPT !.restaurants = Append(@, restaurant)]
    ELSE md

\* Lines 154-155: a name of more than 3 characters not yet present is
\* appended.
AddRestaurant(md, restaurant) ==
    IF Len(restaurant) > 3 /\ restaurant \notin Range(md.restaurants)
    THEN [md EXCEPT !.restaurants = Append(@, restaurant)]
    ELSE md

\* Lines 168-169: a preference of more than 3 characters is appended.
AddPreference(md, preference) ==
    IF Len(preference) > 3
    THEN [md EXCEPT !.preferences = Append(@, preference)]
    ELSE md

\* Lines 184-185: an activity of more than 3 characters not yet present is
\* appended.
AddActivity(md, activity) ==
    IF Len(activity) > 3 /\ activity \notin Range(md.activities)
    THEN [md EXCEPT !.activities = Append(@, activity)]
    ELSE md

\* The body of the loop over the matches of one family of patterns.
AddMatch(kind, md, match) ==
    CASE kind = "travel" -> AddLocation(md, match)
      [] kind = "restaurant" -> AddRestaurant(md, CleanName(match))
      [] kind = "preference" -> AddPreference(md, strip(match))
      [] kind = "activity" -> AddActivity(md, strip(match))

RECURSIVE AddMatches(_, _, _)
\* for match in matches
AddMatches(kind, md, matches) ==
    IF matches = <<>> THEN md
    ELSE AddMatches(kind, AddMatch(kind, md, Head(matches)), Tail(matches))

RECURSIVE AddPatterns(_, _, _, _)
\* for pattern in patterns
AddPatterns(kind, md, patterns, message) ==
    IF patterns = <<>> THEN md
    ELSE AddPatterns(kind, AddMatches(kind, md, findall(Head(patterns), message)),
                     Tail(patterns), message)

request_words == <<"book", "reserve", "arrange", "need", "tickets">>

\* Lines 188-189: the general request.
AddRequest(md, message) ==
    IF AnyIn(request_words, lower(message))
    THEN [md EXCEPT !.requests = Append(@, message)]
    ELSE md

\* extract_info_from_message(message, member_data): the value of
\* member_data after the call.
extract_info_from_message(message, md) ==
    AddRequest(
        AddPatterns("activity",
            AddPatterns("preference",
                AddPatterns("restaurant",
                    AddPatterns("travel", md, travel_patterns, message),
                    restaurant_patterns, message),
                preference_patterns, message),
            activity_patterns, message),
        message)

MaxMessages == 3

\* Messages of one member: two that name the same restaurant, two that name
\* the same city in different case, two that name the same activity.
Messages ==
    {"Book a table for two at Nobu tonight", "Dinner reservation at Nobu",
     "Planning a trip to Paris", "I want to visit PARIS",
     "Need tickets to the opera", "Get seats for the opera"}

InitExtract ==
    /\ strategy = "B" /\ key_set = FALSE
    /\ member_data_cache = "{}" /\ cache_last_updated = NoTime /\ clock = 0
    /\ pc = [r \in Requests |-> "get"]
    /\ now = [r \in Requests |-> 0]
    /\ member_data = [r \in Requests |-> "{}"]
    /\ result = [r \in Requests |-> NoResult]
    /\ gets = [r \in Requests |-> 1]
    /\ posts = [r \in Requests |-> 0]
    /\ cause = [r \in Requests |-> NoCause]
    /\ answer = "" /\ confidence = 0
    /\ batch = NoBatch /\ context = ""
    /\ question = "" /\ profiles = <<>> /\ reply = ""
    /\ extracted = NoMember

\* process_member_data lines 88-114 for one item of the member: the entry
\* is created for the first item, the message is stored and
\* extract_info_from_message is applied to it.
ProcessItem(message) ==
    /\ Len(extracted.messages) < MaxMessages
    /\ extracted' =
          extract_info_from_message(message,
              [(IF extracted.name = None THEN NewMember(Member1) ELSE extracted)
                  EXCEPT !.messages = Append(@, [message |-> message, timestamp |-> ""])])
    /\ UNCHANGED <<svars, answer, confidence, batch, context, question, profiles, reply>>

NextExtract == \E message \in Messages : ProcessItem(message)

SpecExtract == InitExtract /\ [][NextExtract]_vars

-----------------------------------------------------------------------------
(* Claims about extract_info_from_message, checked under SpecExtract.       *)

\* No two entries of the list are identical.
NoDuplicate(xs) == \A i, j \in 1..Len(xs) : xs[i] = xs[j] => i = j

\* No two entries of the list are equal ignoring case.
NoDuplicateIgnoringCase(xs) ==
    \A i, j \in 1..Len(xs) : lower(xs[i]) = lower(xs[j]) => i = j

\* How often x occurs in the list.
Occurrences(xs, x) == Cardinality({i \in 1..Len(xs) : xs[i] = x})

\* The restaurant names the patterns extract from a message.
RestaurantNames(message) ==
    {name \in {CleanName(match) :
                 match \in UNION {Range(findall(restaurant_patterns[k], message)) :
                                    k \in 1..Len(restaurant_patterns)}} :
        Len(name) > 3}

\* C13: after extract_info_from_message has been applied to any sequence
\* of messages of one member, restaurants and activities hold no two
\* identical strings and locations no two strings that are equal ignoring
\* case; a restaurant extracted from a message, however often the message
\* was processed, is in restaurants once.
C13_ExtractorDedup ==
    /\ NoDuplicate(extracted.restaurants)
    /\ NoDuplicate(extracted.activities)
    /\ NoDuplicateIgnoringCase(extracted.locations)
    /\ \A m \in 1..Len(extracted.messages) :
          \A name \in RestaurantNames(extracted.messages[m].message) :
              Occurrences(extracted.restaurants, name) = 1

\* The same message was processed twice, then another message naming the
\* same restaurant, and the restaurant is listed once.
C13_Witness ==
    /\ Len(extracted.messages) = 3
    /\ extracted.messages[1] = extracted.messages[2]
    /\ extracted.restaurants = <<"Nobu">>
    /\ extracted.messages[3].message = "Dinner reservation at Nobu"

=============================================================================
